---- MODULE Spec2Model ----
(***************************************************************************)
(* Byte Pair Encoding trainer (bpe_trainer.py) of llm-zero-to-trained, as  *)
(* described by the implementation guide of the repository.                *)
(*                                                                         *)
(* A character is a one-character string, a symbol is a sequence of        *)
(* characters, a vocabulary key is a sequence of symbols (Tuple[str, ...]) *)
(* and a Python dict is a sequence of records in insertion order.  Words   *)
(* come from whitespace-delimited tokenisation, so they hold no whitespace.*)
(***************************************************************************)
EXTENDS Integers, Sequences, FiniteSets, TLC

\* ---------------------------------------------------------------- bounds
\* Total number of characters of the words of an enumerated input.
MaxChars == 3
\* Largest frequency of an enumerated input.
MaxFreq == 2
\* Largest requested number of merges.
MaxMerges == 4

\* ------------------------------------------------------------ characters
\* The characters of the model in code point order; Ord preserves the order
\* of the code points, which is the order Python compares strings by.
Chars == <<" ", "/", "0", "1", "2", "3", "4", "5", "6", "7", "8", "9", "<", ">",
           "a", "b", "d", "e", "i", "l", "n", "o", "r", "s", "t", "w">>

Ord(c) == CHOOSE k \in 1..Len(Chars) : Chars[k] = c

IsSpace(c) == c = " "

RECURSIVE LexLess(_, _)
LexLess(s, t) ==
  IF t = <<>> THEN FALSE
  ELSE IF s = <<>> THEN TRUE
  ELSE IF Ord(Head(s)) # Ord(Head(t)) THEN Ord(Head(s)) < Ord(Head(t))
  ELSE LexLess(Tail(s), Tail(t))

\* The end-of-word marker "</w>".
Marker == <<"<", "/", "w", ">">>

\* ------------------------------------------------------ dict primitives
\* d[key] = value on an insertion-ordered dict of [key, val] records: an
\* existing key keeps its position and takes the new value.
DictSet(d, key, value) ==
  IF \E k \in 1..Len(d) : d[k].key = key
  THEN [k \in 1..Len(d) |-> IF d[k].key = key THEN [key |-> key, val |-> value] ELSE d[k]]
  ELSE Append(d, [key |-> key, val |-> value])

DictHas(d, key) == \E k \in 1..Len(d) : d[k].key = key

DictGet(d, key) == d[CHOOSE k \in 1..Len(d) : d[k].key = key].val

Keys(d) == {d[k].key : k \in 1..Len(d)}

\* ------------------------------------------------------------ _init_vocab
\* tuple(word) + ("</w>",)
InitEntry(word) == [k \in 1..Len(word) |-> <<word[k]>>] \o <<Marker>>

RECURSIVE InitVocabFrom(_, _)
InitVocabFrom(word_freqs, acc) ==
  IF word_freqs = <<>> THEN acc
  ELSE InitVocabFrom(Tail(word_freqs),
                     DictSet(acc, InitEntry(Head(word_freqs).key), Head(word_freqs).val))

init_vocab(word_freqs) == InitVocabFrom(word_freqs, <<>>)

\* ---------------------------------------------------- _count_symbol_pairs
\* pairs[(symbols[i], symbols[i+1])] += freq, for every position of every
\* entry, in the order the vocabulary is enumerated.
\* Mutant: the frequency is assigned, not accumulated.
DictAddAssign(d, key, n) == DictSet(d, key, n)

DictAdd(d, key, n) ==
  IF DictHas(d, key) THEN DictSet(d, key, DictGet(d, key) + n) ELSE DictSet(d, key, n)

\* Mutant: the scan stops one pair early (range(len(symbols) - 2)).
RECURSIVE CountEntryShort(_, _, _, _)
CountEntryShort(symbols, freq, i, acc) ==
  IF i >= Len(symbols) - 1 THEN acc
  ELSE CountEntryShort(symbols, freq, i + 1, DictAdd(acc, <<symbols[i], symbols[i + 1]>>, freq))

RECURSIVE CountEntry(_, _, _, _)
CountEntry(symbols, freq, i, acc) ==
  IF i >= Len(symbols) THEN acc
  ELSE CountEntry(symbols, freq, i + 1, DictAdd(acc, <<symbols[i], symbols[i + 1]>>, freq))

RECURSIVE CountFrom(_, _)
CountFrom(v, acc) ==
  IF v = <<>> THEN acc
  ELSE CountFrom(Tail(v), CountEntry(Head(v).key, Head(v).val, 1, acc))

count_symbol_pairs(v) == CountFrom(v, <<>>)

\* ------------------------------ max(symbol_pairs, key=symbol_pairs.get)
\* max() walks the keys in enumeration order and keeps the first one whose
\* value no later key exceeds strictly.
\* Mutant: a later key with an equal value replaces the best one (>=).
RECURSIVE MaxFromLast(_, _, _)
MaxFromLast(d, k, best) ==
  IF k > Len(d) THEN d[best].key
  ELSE MaxFromLast(d, k + 1, IF d[k].val >= d[best].val THEN k ELSE best)

RECURSIVE MaxFrom(_, _, _)
MaxFrom(d, k, best) ==
  IF k > Len(d) THEN d[best].key
  ELSE MaxFrom(d, k + 1, IF d[k].val > d[best].val THEN k ELSE best)

\* Mutant: the first key is taken, whatever its count.
FirstKey(symbol_pairs) == symbol_pairs[1].key

BestPair(symbol_pairs) == MaxFrom(symbol_pairs, 2, 1)

\* ------------------------------------------------------------ _merge_vocab
\* " ".join(symbols)
RECURSIVE JoinSpace(_)
JoinSpace(symbols) ==
  IF symbols = <<>> THEN <<>>
  ELSE IF Len(symbols) = 1 THEN Head(symbols)
  ELSE Head(symbols) \o <<" ">> \o JoinSpace(Tail(symbols))

\* "".join(symbols)
RECURSIVE JoinAll(_)
JoinAll(symbols) ==
  IF symbols = <<>> THEN <<>> ELSE Head(symbols) \o JoinAll(Tail(symbols))

\* str.split(): cut at runs of whitespace, no empty pieces.
RECURSIVE SplitFrom(_, _, _)
SplitFrom(text, cur, acc) ==
  IF text = <<>> THEN (IF cur = <<>> THEN acc ELSE Append(acc, cur))
  ELSE IF IsSpace(Head(text))
       THEN SplitFrom(Tail(text), <<>>, IF cur = <<>> THEN acc ELSE Append(acc, cur))
       ELSE SplitFrom(Tail(text), Append(cur, Head(text)), acc)

Split(text) == SplitFrom(text, <<>>, <<>>)

\* bigram = re.escape(" ".join(pair)): the literal text "left right".
Bigram(pair) == pair[1] \o <<" ">> \o pair[2]

\* Mutant: the pattern has no lookbehind.
NoLookBehind(text, i) == TRUE

\* (?<!\S): the character before position i, if any, is whitespace.
LookBehind(text, i) == i = 1 \/ IsSpace(text[i - 1])

\* Mutant: the pattern has no lookahead.
NoLookAhead(text, j) == TRUE

\* (?!\S): the character at position j, if any, is whitespace.
LookAhead(text, j) == j > Len(text) \/ IsSpace(text[j])

\* The pattern (?<!\S)bigram(?!\S) matches at position i of text.
MatchAt(text, i, bigram) ==
  /\ i + Len(bigram) - 1 <= Len(text)
  /\ SubSeq(text, i, i + Len(bigram) - 1) = bigram
  /\ LookBehind(text, i)
  /\ LookAhead(text, i + Len(bigram))

\* Mutant: only the first match is replaced (count=1).
RECURSIVE RegexSubFirst(_, _, _, _)
RegexSubFirst(text, i, bigram, replacement) ==
  IF i > Len(text) THEN <<>>
  ELSE IF MatchAt(text, i, bigram)
       THEN replacement \o SubSeq(text, i + Len(bigram), Len(text))
       ELSE <<text[i]>> \o RegexSubFirst(text, i + 1, bigram, replacement)

\* pattern.sub(replacement, text): leftmost non-overlapping matches.
RECURSIVE RegexSub(_, _, _, _)
RegexSub(text, i, bigram, replacement) ==
  IF i > Len(text) THEN <<>>
  ELSE IF MatchAt(text, i, bigram)
       THEN replacement \o RegexSub(text, i + Len(bigram), bigram, replacement)
       ELSE <<text[i]>> \o RegexSub(text, i + 1, bigram, replacement)

MergeEntry(pair, symbols) ==
  Split(RegexSub(JoinSpace(symbols), 1, Bigram(pair), JoinAll(pair)))

\* Mutant: only the entries the merge rewrote are put in the new vocabulary.
RECURSIVE MergeFromChanged(_, _, _)
MergeFromChanged(pair, v, acc) ==
  IF v = <<>> THEN acc
  ELSE MergeFromChanged(pair, Tail(v),
         IF MergeEntry(pair, Head(v).key) = Head(v).key THEN acc
         ELSE DictSet(acc, MergeEntry(pair, Head(v).key), Head(v).val))

RECURSIVE MergeFrom(_, _, _)
MergeFrom(pair, v, acc) ==
  IF v = <<>> THEN acc
  ELSE MergeFrom(pair, Tail(v), DictSet(acc, MergeEntry(pair, Head(v).key), Head(v).val))

merge_vocab(pair, v) == MergeFrom(pair, v, <<>>)

\* ---------------------------------------------------------- save_artifacts
\* str(n) for n >= 0.
RECURSIVE Digits(_)
Digits(n) ==
  IF n < 10 THEN <<Chars[3 + n]>> ELSE Digits(n \div 10) \o <<Chars[3 + (n % 10)]>>

\* vocab.txt line: the space-joined symbols, a space, the frequency.
VocabLine(entry) == JoinSpace(entry.key) \o <<" ">> \o Digits(entry.val)

\* merges.txt line: "left right".
MergeLine(pair) == pair[1] \o <<" ">> \o pair[2]

\* Descending frequency, ties by the joined form in ascending order.
EntryBefore(e, f) ==
  \/ e.val > f.val
  \/ e.val = f.val /\ LexLess(JoinSpace(e.key), JoinSpace(f.key))

RECURSIVE InsertSorted(_, _)
InsertSorted(sorted, e) ==
  IF sorted = <<>> THEN <<e>>
  ELSE IF EntryBefore(e, Head(sorted)) THEN <<e>> \o sorted
  ELSE <<Head(sorted)>> \o InsertSorted(Tail(sorted), e)

RECURSIVE SortVocab(_, _)
SortVocab(v, acc) ==
  IF v = <<>> THEN acc ELSE SortVocab(Tail(v), InsertSorted(acc, Head(v)))

VocabTxt(v) == [k \in 1..Len(v) |-> VocabLine(SortVocab(v, <<>>)[k])]

\* Mutant: the merges are written last one first.
MergesTxtReversed(ms) == [k \in 1..Len(ms) |-> MergeLine(ms[Len(ms) + 1 - k])]

MergesTxt(ms) == [k \in 1..Len(ms) |-> MergeLine(ms[k])]

\* -------------------------------------------------------------- inputs
Alphabet == {"a", "b"}

RECURSIVE WordsOfLen(_)
WordsOfLen(n) ==
  IF n = 0 THEN {<<>>} ELSE {Append(w, c) : w \in WordsOfLen(n - 1), c \in Alphabet}

Item(w, f) == [key |-> w, val |-> f]

\* A dict has no key twice.
IsDict(d) == \A j, k \in 1..Len(d) : d[j].key = d[k].key => j = k

\* The mappings from distinct words to frequencies in fs whose words have at
\* most n characters in all, in every enumeration order.
RECURSIVE DictsWithin(_, _)
DictsWithin(n, fs) ==
  {<<>>} \cup
  UNION {UNION {{Append(d, Item(w, f)) :
                   d \in {e \in DictsWithin(n - l, fs) : ~DictHas(e, w)}, f \in fs} :
                w \in WordsOfLen(l)} :
         l \in 1..n}

ValidInputs == DictsWithin(MaxChars, 1..MaxFreq) \ {<<>>}

\* The worked example of the training section: low 5, lower 2, newest 6, widest 3.
PaperInput ==
  << Item(<<"l","o","w">>, 5), Item(<<"l","o","w","e","r">>, 2),
     Item(<<"n","e","w","e","s","t">>, 6), Item(<<"w","i","d","e","s","t">>, 3) >>

\* Inputs in which a symbol fused earlier ends or starts with the text of a
\* later pair, runs of one repeated character, a pair twice in one word,
\* and counts that never share a maximum.
BoundaryInputs ==
  { << Item(<<"a","b">>, 1), Item(<<"a","b","b">>, 2), Item(<<"b">>, 2) >>,
    << Item(<<"b","a">>, 2), Item(<<"b","a","b">>, 1), Item(<<"a","b">>, 2) >>,
    << Item(<<"a","a","a","a">>, 1), Item(<<"a","a","a">>, 2) >>,
    << Item(<<"a">>, 2), Item(<<"b","b","b">>, 1) >>,
    << Item(<<"a">>, 4), Item(<<"b">>, 2), Item(<<"b","a">>, 1) >> }

\* Inputs the initializer rejects: no word, a word that is empty, a frequency
\* that is zero or negative.
InvalidInputs ==
  {<<>>} \cup
  UNION {UNION {{[d EXCEPT ![k].key = <<>>],
                 [d EXCEPT ![k].val = 0],
                 [d EXCEPT ![k].val = 0 - 1]} : k \in 1..Len(d)} :
         d \in DictsWithin(MaxChars, {1})}

Inputs == ValidInputs \cup {PaperInput} \cup BoundaryInputs \cup InvalidInputs

\* Mutant: the frequencies are not looked at.
ValidInputAnyFreq(word_freqs, n) ==
  /\ word_freqs # <<>>
  /\ \A k \in 1..Len(word_freqs) : word_freqs[k].key # <<>>
  /\ n >= 0

ValidInput(word_freqs, n) ==
  /\ word_freqs # <<>>
  /\ \A k \in 1..Len(word_freqs) : word_freqs[k].key # <<>> /\ word_freqs[k].val >= 1
  /\ n >= 0

\* ---------------------------------------------------------------- state
VARIABLES
  word_freqs,   \* the input mapping, in its enumeration order
  num_merges,   \* N, the requested number of merges
  pc,           \* "start", "loop", "trained", "saved" or "rejected"
  vocab,        \* self.vocab
  merges,       \* self.merges
  step,         \* loop counter of fit
  prev,         \* the vocabulary the last merge was applied to
  outcome,      \* "none", "Completed", "EarlyTermination" or "InvalidInputError"
  vocab_txt,    \* vocab.txt, "absent" until written
  merges_txt    \* merges.txt, "absent" until written

vars == <<word_freqs, num_merges, pc, vocab, merges, step, prev, outcome,
          vocab_txt, merges_txt>>

Init ==
  /\ word_freqs \in Inputs
  /\ num_merges \in (0 - 1)..MaxMerges
  /\ pc = "start"
  /\ vocab = <<>>
  /\ merges = <<>>
  /\ step = 0
  /\ prev = <<>>
  /\ outcome = "none"
  /\ vocab_txt = "absent"
  /\ merges_txt = "absent"

\* fit: the input is refused before anything is built.
Reject ==
  /\ pc = "start"
  /\ ~ValidInput(word_freqs, num_merges)
  /\ pc' = "rejected"
  /\ outcome' = "InvalidInputError"
  /\ UNCHANGED <<word_freqs, num_merges, vocab, merges, step, prev, vocab_txt, merges_txt>>

\* fit: Step 1, self.vocab = self._init_vocab(word_freqs).
InitVocab ==
  /\ pc = "start"
  /\ ValidInput(word_freqs, num_merges)
  /\ vocab' = init_vocab(word_freqs)
  /\ pc' = "loop"
  /\ UNCHANGED <<word_freqs, num_merges, merges, step, prev, outcome, vocab_txt, merges_txt>>

\* Mutant: the loop runs once more than asked (range(num_merges + 1)).
MergeStepOnceMore ==
  /\ pc = "loop"
  /\ step <= num_merges
  /\ LET symbol_pairs == count_symbol_pairs(vocab) IN
       /\ symbol_pairs # <<>>
       /\ LET best == BestPair(symbol_pairs) IN
            /\ vocab' = merge_vocab(best, vocab)
            /\ merges' = Append(merges, best)
  /\ prev' = vocab
  /\ step' = step + 1
  /\ UNCHANGED <<word_freqs, num_merges, pc, outcome, vocab_txt, merges_txt>>

\* fit: one iteration of Steps 2-4.
MergeStep ==
  /\ pc = "loop"
  /\ step < num_merges
  /\ LET symbol_pairs == count_symbol_pairs(vocab) IN
       /\ symbol_pairs # <<>>
       /\ LET best == BestPair(symbol_pairs) IN
            /\ vocab' = merge_vocab(best, vocab)
            /\ merges' = Append(merges, best)
  /\ prev' = vocab
  /\ step' = step + 1
  /\ UNCHANGED <<word_freqs, num_merges, pc, outcome, vocab_txt, merges_txt>>

\* fit: no pair is left before N merges were made.
EarlyStop ==
  /\ pc = "loop"
  /\ step < num_merges
  /\ count_symbol_pairs(vocab) = <<>>
  /\ pc' = "trained"
  /\ outcome' = "EarlyTermination"
  /\ UNCHANGED <<word_freqs, num_merges, vocab, merges, step, prev, vocab_txt, merges_txt>>

\* fit: the loop has run N times.
LoopDone ==
  /\ pc = "loop"
  /\ step = num_merges
  /\ pc' = "trained"
  /\ outcome' = "Completed"
  /\ UNCHANGED <<word_freqs, num_merges, vocab, merges, step, prev, vocab_txt, merges_txt>>

\* save_artifacts(output_path)
SaveArtifacts ==
  /\ pc = "trained"
  /\ vocab_txt' = VocabTxt(vocab)
  /\ merges_txt' = MergesTxt(merges)
  /\ pc' = "saved"
  /\ UNCHANGED <<word_freqs, num_merges, vocab, merges, step, prev, outcome>>

Next ==
  \/ Reject
  \/ InitVocab
  \/ MergeStep
  \/ EarlyStop
  \/ LoopDone
  \/ SaveArtifacts

Spec == Init /\ [][Next]_vars

\* A second run of fit on the same mapping: the loop of fit as a function.
RECURSIVE TrainFrom(_, _, _)
TrainFrom(v, ms, n) ==
  IF n = 0 \/ count_symbol_pairs(v) = <<>> THEN [vocab |-> v, merges |-> ms]
  ELSE TrainFrom(merge_vocab(BestPair(count_symbol_pairs(v)), v),
                 Append(ms, BestPair(count_symbol_pairs(v))), n - 1)

Train(input, n) == TrainFrom(init_vocab(input), <<>>, n)

\* ------------------------------------------------- reference definitions
Trained == pc \in {"trained", "saved"}

Built == pc \in {"loop", "trained", "saved"}

Merged == prev # <<>>

LastPair == merges[Len(merges)]

RECURSIVE SumTo(_, _)
SumTo(f, n) == IF n = 0 THEN 0 ELSE f[n] + SumTo(f, n - 1)

\* Number of positions of symbols where a is immediately followed by b.
Occurrences(symbols, a, b) ==
  Cardinality({i \in 1..(Len(symbols) - 1) : symbols[i] = a /\ symbols[i + 1] = b})

\* Frequency-weighted number of adjacent occurrences of (a, b) in v.
WeightedCount(v, a, b) ==
  SumTo([k \in 1..Len(v) |-> v[k].val * Occurrences(v[k].key, a, b)], Len(v))

SymbolsOf(v) == UNION {{v[k].key[i] : i \in 1..Len(v[k].key)} : k \in 1..Len(v)}

TotalSymbols(v) == SumTo([k \in 1..Len(v) |-> Len(v[k].key)], Len(v))

CountOf(d, key) == IF DictHas(d, key) THEN DictGet(d, key) ELSE 0

MaxCount(d) == CHOOSE m \in {d[k].val : k \in 1..Len(d)} : \A k \in 1..Len(d) : d[k].val <= m

MaxPairs(d) == {d[k].key : k \in {j \in 1..Len(d) : d[j].val = MaxCount(d)}}

\* Left-to-right scan of a symbol sequence that splices l, r into l+r.
RECURSIVE ScanSplice(_, _, _)
ScanSplice(symbols, l, r) ==
  IF Len(symbols) < 2 THEN symbols
  ELSE IF symbols[1] = l /\ symbols[2] = r
       THEN <<l \o r>> \o ScanSplice(SubSeq(symbols, 3, Len(symbols)), l, r)
       ELSE <<symbols[1]>> \o ScanSplice(Tail(symbols), l, r)

IsSuffix(s, t) == Len(s) <= Len(t) /\ SubSeq(t, Len(t) - Len(s) + 1, Len(t)) = s


\* ------------------------------------------------------------------ C10
PairUniverse(v) == SymbolsOf(v) \X SymbolsOf(v)

\* Entries that held the merged pair before the last merge.
Touched == {k \in 1..Len(prev) : Occurrences(prev[k].key, LastPair[1], LastPair[2]) > 0}

\* The counts before the last merge, updated from the touched entries only.
IncrementalCount(a, b) ==
  CountOf(count_symbol_pairs(prev), <<a, b>>)
  - SumTo([k \in 1..Len(prev) |->
            IF k \in Touched THEN prev[k].val * Occurrences(prev[k].key, a, b) ELSE 0], Len(prev))
  + SumTo([k \in 1..Len(vocab) |->
            IF k \in Touched THEN vocab[k].val * Occurrences(vocab[k].key, a, b) ELSE 0], Len(vocab))

\* C10: the collected count of every ordered pair (a, b) is the sum over the
\* entries of frequency times the number of positions where a is immediately
\* followed by b, a pair is collected exactly when it occurs, and updating
\* the previous counts from the entries that held the merged pair gives the
\* counts of a full recomputation.
C10_PairStatistics ==
  Built =>
    LET symbol_pairs == count_symbol_pairs(vocab) IN
      /\ IsDict(symbol_pairs)
      /\ Keys(symbol_pairs) \subseteq PairUniverse(vocab)
      /\ \A p \in PairUniverse(vocab) :
           /\ CountOf(symbol_pairs, p) = WeightedCount(vocab, p[1], p[2])
           /\ DictHas(symbol_pairs, p) <=> \E k \in 1..Len(vocab) : Occurrences(vocab[k].key, p[1], p[2]) > 0
      /\ Merged =>
           /\ Len(vocab) = Len(prev)
           /\ \A p \in PairUniverse(vocab) \cup PairUniverse(prev) :
                IncrementalCount(p[1], p[2]) = CountOf(symbol_pairs, p)

\* A merge has been applied that left some entry untouched, one entry is a
\* single symbol and another holds one pair at two positions.
C10_Witness ==
  /\ Built /\ Merged
  /\ Touched # {} /\ Touched # 1..Len(prev)
  /\ \E k \in 1..Len(vocab) : Len(vocab[k].key) = 1
  /\ \E k \in 1..Len(vocab) : \E p \in PairUniverse(vocab) :
       /\ Occurrences(vocab[k].key, p[1], p[2]) = 2
       /\ CountOf(count_symbol_pairs(vocab), p) >= 2 * vocab[k].val

\* ------------------------------------------------------------------- C8
\* C8: after each applied merge (l, r) no entry has more symbols than before
\* and l is nowhere immediately followed by r, also when l = r.
C8_MergeMonotonicity ==
  Built /\ Merged =>
    /\ Len(vocab) = Len(prev)
    /\ \A k \in 1..Len(vocab) :
         /\ Len(vocab[k].key) <= Len(prev[k].key)
         /\ Occurrences(vocab[k].key, LastPair[1], LastPair[2]) = 0

\* The merged pair is a symbol with itself and an entry held a run of three.
C8_Witness ==
  /\ Built /\ Merged
  /\ LastPair[1] = LastPair[2]
  /\ \E k \in 1..Len(prev) : \E i \in 1..(Len(prev[k].key) - 2) :
       /\ prev[k].key[i] = LastPair[1]
       /\ prev[k].key[i + 1] = LastPair[1]
       /\ prev[k].key[i + 2] = LastPair[1]

\* ------------------------------------------------------------------- C7
\* C7: the regex rewrite of the space-joined entry gives, for every entry,
\* the result of the left-to-right scan that splices the non-overlapping
\* places where l is immediately followed by r and changes nothing else.
C7_BoundaryRespectingMerge ==
  Built /\ Merged =>
    /\ Len(vocab) = Len(prev)
    /\ \A k \in 1..Len(vocab) :
         vocab[k].key = ScanSplice(prev[k].key, LastPair[1], LastPair[2])

\* The text of the merged pair straddles a symbol fused earlier: an entry
\* held a longer symbol ending in l right before r and is left as it was,
\* while another entry held l right before r and is rewritten.
C7_Witness ==
  /\ Built /\ Merged
  /\ \E k \in 1..Len(prev) : \E i \in 1..(Len(prev[k].key) - 1) :
       /\ prev[k].key[i] # LastPair[1]
       /\ IsSuffix(LastPair[1], prev[k].key[i])
       /\ prev[k].key[i + 1] = LastPair[2]
       /\ vocab[k].key = prev[k].key
  /\ \E k \in 1..Len(prev) : vocab[k].key # prev[k].key

\* ------------------------------------------------------------------- C9
\* C9: the vocabulary has one entry per input word, spelling that word and
\* carrying its frequency, no two entries share a key, and the frequencies
\* sum to the sum of the input frequencies.
C9_FrequencyConservation ==
  Built =>
    /\ Len(vocab) = Len(word_freqs)
    /\ IsDict(vocab)
    /\ \A k \in 1..Len(vocab) :
         /\ vocab[k].val = word_freqs[k].val
         /\ JoinAll(vocab[k].key) = word_freqs[k].key \o Marker
    /\ SumTo([k \in 1..Len(vocab) |-> vocab[k].val], Len(vocab))
         = SumTo([k \in 1..Len(word_freqs) |-> word_freqs[k].val], Len(word_freqs))

\* Two merges were applied to a vocabulary of several words, one of which
\* the last merge left untouched.
C9_Witness ==
  /\ Built /\ Len(merges) >= 2 /\ Len(vocab) >= 2
  /\ \E k \in 1..Len(vocab) : vocab[k].key = prev[k].key
  /\ \E k \in 1..Len(vocab) : vocab[k].key # prev[k].key

\* ------------------------------------------------------------------- C6
\* One line of merges.txt read back: the two symbols around the space.
ParseMergeLine(line) == <<Split(line)[1], Split(line)[2]>>

ParseMerges(txt) == [k \in 1..Len(txt) |-> ParseMergeLine(txt[k])]

RECURSIVE Replay(_, _)
Replay(ms, v) == IF ms = <<>> THEN v ELSE Replay(Tail(ms), merge_vocab(Head(ms), v))

\* C6: the merges read back from merges.txt and applied in order to a fresh
\* character-level vocabulary of the same input give the final vocabulary
\* and the content of vocab.txt.
C6_RoundTrip ==
  pc = "saved" =>
    /\ \A k \in 1..Len(merges_txt) : Len(Split(merges_txt[k])) = 2
    /\ Replay(ParseMerges(merges_txt), init_vocab(word_freqs)) = vocab
    /\ VocabTxt(Replay(ParseMerges(merges_txt), init_vocab(word_freqs))) = vocab_txt

\* Artifacts with several merges, a later one built on an earlier one.
C6_Witness ==
  /\ pc = "saved"
  /\ Len(merges) >= 3
  /\ Len(word_freqs) >= 2
  /\ \E j \in 1..Len(merges) : \E k \in 1..Len(merges) :
       j < k /\ merges[k][1] = merges[j][1] \o merges[j][2]

\* ------------------------------------------------------------------- C5
Invalid ==
  \/ word_freqs = <<>>
  \/ \E k \in 1..Len(word_freqs) : word_freqs[k].val <= 0
  \/ \E k \in 1..Len(word_freqs) : word_freqs[k].key = <<>>
  \/ num_merges < 0

\* C5: a call with an empty map, a non-positive frequency, an empty word or
\* a negative merge count ends in InvalidInputError with no vocabulary, no
\* merge and neither artifact written; no other call ends that way.
C5_InvalidInputRejected ==
  /\ (Invalid /\ pc # "start") =>
       /\ pc = "rejected"
       /\ outcome = "InvalidInputError"
       /\ vocab = <<>>
       /\ merges = <<>>
       /\ vocab_txt = "absent"
       /\ merges_txt = "absent"
  /\ outcome = "InvalidInputError" => Invalid

\* A call refused for a non-positive frequency alone.
C5_Witness ==
  /\ pc = "rejected"
  /\ num_merges > 0
  /\ word_freqs # <<>>
  /\ \A k \in 1..Len(word_freqs) : word_freqs[k].key # <<>>
  /\ \E k \in 1..Len(word_freqs) : word_freqs[k].val <= 0

\* ------------------------------------------------------------------- C3
AllSingle == \A k \in 1..Len(vocab) : Len(vocab[k].key) = 1

Places(v, p) ==
  UNION {{<<k, i>> : i \in {j \in 1..(Len(v[k].key) - 1) :
                              v[k].key[j] = p[1] /\ v[k].key[j + 1] = p[2]}} :
         k \in 1..Len(v)}

PlaceBefore(x, y) == x[1] < y[1] \/ (x[1] = y[1] /\ x[2] < y[2])

FirstPlace(v, p) == CHOOSE x \in Places(v, p) : \A y \in Places(v, p) : x = y \/ PlaceBefore(x, y)

PaperCase == word_freqs = PaperInput /\ num_merges = 1 /\ Trained

PaperResult ==
  /\ merges = << <<<<"e">>, <<"s">>>> >>
  /\ CountOf(count_symbol_pairs(prev), <<<<"e">>, <<"s">>>>) = 9
  /\ CountOf(count_symbol_pairs(prev), <<<<"l">>, <<"o">>>>) = 7
  /\ vocab[3].key = << <<"n">>, <<"e">>, <<"w">>, <<"e", "s">>, <<"t">>, Marker >>

Reorderings(d) ==
  {[k \in 1..Len(d) |-> d[f[k]]] :
     f \in {g \in [1..Len(d) -> 1..Len(d)] : \A i, j \in 1..Len(d) : g[i] = g[j] => i = j}}

VocabLines(v) == {VocabLine(v[k]) : k \in 1..Len(v)}

\* Some iteration of the run from v has two pairs with the maximum count.
RECURSIVE RunHasTie(_, _)
RunHasTie(v, n) ==
  IF n <= 0 \/ count_symbol_pairs(v) = <<>> THEN FALSE
  ELSE \/ Cardinality(MaxPairs(count_symbol_pairs(v))) >= 2
       \/ RunHasTie(merge_vocab(BestPair(count_symbol_pairs(v)), v), n - 1)

====
